---- MODULE Spec2Model ----
(***************************************************************************)
(* Media-Compressor (src/src/main.py): the dispatcher process_media, the   *)
(* path mapper get_output_path, the resolution policy resize_image and the *)
(* four adapters, as a state machine over a source tree and an output tree.*)
(*                                                                         *)
(* A file name is a sequence of one-character strings, so that lower(),    *)
(* endswith() and os.path.splitext() are computed as Python computes them. *)
(* The outcome of every external call (ffmpeg.probe, the ffmpeg encode,    *)
(* Image.open / rawpy.imread, Image.save, shutil.copystat) is a property   *)
(* of the source file, fixed for the whole behaviour: the source tree does *)
(* not change between two runs.                                            *)
(***************************************************************************)
EXTENDS Integers, Sequences, FiniteSets, TLC

VARIABLES
    tree,       \* the files os.walk yields, in the order it yields them
    run,        \* number of the current execution of the script
    pc,         \* "ready" | "walk" | "done" | "critical"
    idx,        \* position of the walk in tree
    outFiles,   \* output path -> the file written there
    outDirs,    \* directories that exist under OUTPUT_DIR
    visits,     \* this run's loop iterations, one record per file visited
    snapshot,   \* outFiles as they were when the current run started
    arg,        \* argument of the pure function under test (a size)
    ret         \* its result

vars == <<tree, run, pc, idx, outFiles, outDirs, visits, snapshot, arg, ret>>

(***************************************************************************)
(* Bounds of the model.                                                    *)
(***************************************************************************)
MaxFiles == 2
Span == 2

(***************************************************************************)
(* Program constants.                                                      *)
(***************************************************************************)
MAX_SIZE == 1920

VIDEO_EXTS ==
    { <<".", "m", "p", "4">>, <<".", "m", "o", "v">>, <<".", "a", "v", "i">>,
      <<".", "m", "k", "v">>, <<".", "w", "m", "v">>, <<".", "m", "t", "s">> }

PHOTO_EXTS ==
    { <<".", "j", "p", "g">>, <<".", "j", "p", "e", "g">>, <<".", "p", "n", "g">>,
      <<".", "t", "i", "f", "f">>, <<".", "w", "e", "b", "p">>, <<".", "b", "m", "p">> }

RAW_EXTS == { <<".", "a", "r", "w">>, <<".", "n", "e", "f">> }

HEIC_EXTS == { <<".", "h", "e", "i", "c">> }

JPG == <<".", "j", "p", "g">>

NoExt == << >>

(***************************************************************************)
(* str.lower(), str.endswith(tuple) and os.path.splitext().                *)
(***************************************************************************)
Uppers ==
    <<"A", "B", "C", "D", "E", "F", "G", "H", "I", "J", "K", "L", "M",
      "N", "O", "P", "Q", "R", "S", "T", "U", "V", "W", "X", "Y", "Z">>

Lowers ==
    <<"a", "b", "c", "d", "e", "f", "g", "h", "i", "j", "k", "l", "m",
      "n", "o", "p", "q", "r", "s", "t", "u", "v", "w", "x", "y", "z">>

LowerChar(c) ==
    IF \E i \in 1..Len(Uppers) : Uppers[i] = c
    THEN Lowers[CHOOSE i \in 1..Len(Uppers) : Uppers[i] = c]
    ELSE c

IdentityName(name) == name

file_lower(name) == [i \in 1..Len(name) |-> LowerChar(name[i])]

endswith(s, sufs) ==
    \E suf \in sufs :
        /\ Len(s) >= Len(suf)
        /\ SubSeq(s, Len(s) - Len(suf) + 1, Len(s)) = suf

\* Index of the last "." of name, 0 when there is none.
LastDot(name) ==
    IF \E i \in 1..Len(name) : name[i] = "."
    THEN CHOOSE i \in 1..Len(name) :
            /\ name[i] = "."
            /\ \A j \in (i + 1)..Len(name) : name[j] # "."
    ELSE 0

\* os.path.splitext on the last path component: the extension starts at the
\* last dot, unless only dots precede it (a leading-dot name has no extension).
splitext(name) ==
    LET d == LastDot(name)
    IN  IF d > 0 /\ \E j \in 1..(d - 1) : name[j] # "."
        THEN <<SubSeq(name, 1, d - 1), SubSeq(name, d, Len(name))>>
        ELSE <<name, << >> >>

(***************************************************************************)
(* get_output_path: the path under OUTPUT_DIR mirroring the input's path   *)
(* relative to SOURCE_DIR, with the extension rewritten when one is given. *)
(* The directory the path lies in is created by the caller's state update  *)
(* (os.makedirs(..., exist_ok=True)).                                      *)
(***************************************************************************)
get_output_path(f, extension, include_original_ext) ==
    LET base         == splitext(f.name)[1]
        original_ext == splitext(f.name)[2]
        name == IF extension # NoExt
                THEN IF include_original_ext
                     THEN base \o <<"_">> \o SubSeq(original_ext, 2, Len(original_ext)) \o extension
                     ELSE base \o extension
                ELSE f.name
    IN  [dir |-> f.dir, name |-> name]

(***************************************************************************)
(* Python's float arithmetic, as far as resize_image uses it: a float is a *)
(* binary64 number m * 2^e, its mantissa m a sequence of bits (most        *)
(* significant first). int / int and int * float round to nearest, ties to *)
(* even; int(float) truncates.                                             *)
(***************************************************************************)
DoubleMantissa == 53

\* Bits of the quotient computed below the binary point before it is rounded.
QuotientBits == DoubleMantissa + DoubleMantissa

RECURSIVE ToBits(_)
ToBits(n) == IF n = 0 THEN << >> ELSE Append(ToBits(n \div 2), n % 2)

RECURSIVE FromBits(_)
FromBits(bits) ==
    IF bits = << >> THEN 0
    ELSE 2 * FromBits(SubSeq(bits, 1, Len(bits) - 1)) + bits[Len(bits)]

Zeros(n) == [i \in 1..n |-> 0]

\* bits without its leading zeros.
Strip(bits) ==
    IF \E i \in 1..Len(bits) : bits[i] = 1
    THEN SubSeq(bits,
                CHOOSE i \in 1..Len(bits) :
                    bits[i] = 1 /\ \A j \in 1..(i - 1) : bits[j] = 0,
                Len(bits))
    ELSE << >>

\* bits + 1.
Increment(bits) ==
    IF \E i \in 1..Len(bits) : bits[i] = 0
    THEN LET z == CHOOSE i \in 1..Len(bits) :
                      bits[i] = 0 /\ \A j \in (i + 1)..Len(bits) : bits[j] = 1
         IN  [i \in 1..Len(bits) |-> IF i < z THEN bits[i] ELSE IF i = z THEN 1 ELSE 0]
    ELSE <<1>> \o Zeros(Len(bits))

\* 2^j mod b, by repeated squaring.
RECURSIVE Pow2Mod(_, _)
Pow2Mod(j, b) ==
    IF j = 0 THEN 1 % b
    ELSE LET h == Pow2Mod(j \div 2, b)
         IN  (h * h * (IF j % 2 = 1 THEN 2 ELSE 1)) % b

\* (a * 2^j) mod b
Remainder(a, b, j) == ((a % b) * Pow2Mod(j, b)) % b

\* The j-th bit of a / b below the binary point.
QuotientBit(a, b, j) == (2 * Remainder(a, b, j - 1)) \div b

\* The 16 bits of n < 2^16.
Limb(n) == [i \in 1..16 |-> (n \div (2 ^ (16 - i))) % 2]

\* bits * n, for at most 64 bits and n < 2^13, in limbs of 16 bits.
MulBits(bits, n) ==
    LET padded == Zeros(64 - Len(bits)) \o bits
        l3 == FromBits(SubSeq(padded, 1, 16))
        l2 == FromBits(SubSeq(padded, 17, 32))
        l1 == FromBits(SubSeq(padded, 33, 48))
        l0 == FromBits(SubSeq(padded, 49, 64))
        c0 == l0 * n
        c1 == l1 * n + c0 \div 65536
        c2 == l2 * n + c1 \div 65536
        c3 == l3 * n + c2 \div 65536
    IN  Strip(ToBits(c3) \o Limb(c2 % 65536) \o Limb(c1 % 65536) \o Limb(c0 % 65536))

\* bits (no leading zero; sticky: a non-zero part lies below them) rounded to
\* DoubleMantissa bits, nearest, ties to even: the mantissa and the bits dropped.
RoundNearestEven(bits, sticky) ==
    IF Len(bits) <= DoubleMantissa
    THEN [m |-> bits, dropped |-> 0]
    ELSE LET top   == SubSeq(bits, 1, DoubleMantissa)
             guard == bits[DoubleMantissa + 1]
             rest  == sticky \/ \E i \in (DoubleMantissa + 2)..Len(bits) : bits[i] = 1
             up    == guard = 1 /\ (rest \/ top[DoubleMantissa] = 1)
         IN  [m |-> IF up THEN Increment(top) ELSE top,
              dropped |-> Len(bits) - DoubleMantissa]

\* a / b for positive ints: Python's true division.
float_div(a, b) ==
    LET q == Strip(ToBits(a \div b) \o [j \in 1..QuotientBits |-> QuotientBit(a, b, j)])
        r == RoundNearestEven(q, Remainder(a, b, QuotientBits) # 0)
    IN  [m |-> r.m, e |-> r.dropped - QuotientBits]

\* n * x for a positive int n and a float x.
float_mul(n, x) ==
    LET r == RoundNearestEven(MulBits(x.m, n), FALSE)
    IN  [m |-> r.m, e |-> x.e + r.dropped]

\* int(x) for a float 0 <= x < 2^31.
int_of_float(x) ==
    IF x.e >= 0 THEN FromBits(x.m \o Zeros(x.e))
    ELSE IF Len(x.m) + x.e <= 0 THEN 0
    ELSE FromBits(SubSeq(x.m, 1, Len(x.m) + x.e))

\* int(n * (MAX_SIZE / d))
scaled_edge(n, d) == int_of_float(float_mul(n, float_div(MAX_SIZE, d)))

(***************************************************************************)
(* Values.                                                                 *)
(***************************************************************************)
\* (None, None): no resolution.
NoSize == <<0, 0>>

\* No vf= argument.
NoFilter == <<0, 0>>

NoPath == [dir |-> "", name |-> << >>]

Log(level, msg) == [level |-> level, msg |-> msg]

Put(files, path, rec) ==
    [p \in DOMAIN files \cup {path} |-> IF p = path THEN rec ELSE files[p]]

SourcePath(f) == [dir |-> f.dir, name |-> f.name]

\* What an encoder writes at time now; shutil.copystat then sets mtime.
Written(f, now, size, vf, exif, complete) ==
    [src |-> SourcePath(f), mtime |-> now, size |-> size, vf |-> vf,
     exif |-> exif, complete |-> complete]

(***************************************************************************)
(* get_video_resolution: the probed (width, height), or (None, None) when  *)
(* the probe raises (logged as an error here) or finds no video stream.    *)
(***************************************************************************)
get_video_resolution(f) ==
    CASE f.probe = "ok"        -> [size |-> f.size, log |-> << >>]
      [] f.probe = "raises"    -> [size |-> NoSize,
                                   log |-> <<Log("error", "resolution_error")>>]
      [] f.probe = "no_stream" -> [size |-> NoSize, log |-> << >>]

(***************************************************************************)
(* The scale filter of compress_videos, evaluated by the encoder at the    *)
(* input's (iw, ih):                                                       *)
(*   scale='if(gt(iw,ih),MAX_SIZE,-2):if(gt(ih,iw),MAX_SIZE,-2):...'      *)
(***************************************************************************)
scale_filter(iw, ih) ==
    << IF iw > ih THEN MAX_SIZE ELSE -2, IF ih > iw THEN MAX_SIZE ELSE -2 >>

exceeds_max(width, height) == width > MAX_SIZE \/ height > MAX_SIZE

\* The vf= argument compress_videos encodes a probed size with.
video_filter(size) ==
    IF exceeds_max(size[1], size[2]) THEN scale_filter(size[1], size[2]) ELSE NoFilter

(***************************************************************************)
(* compress_videos. Only ffmpeg.Error is caught: an OSError of             *)
(* shutil.copystat leaves the function.                                    *)
(***************************************************************************)
\* The encode and the timestamp copy, for the resolution res the probe gave.
encode_video(res, f, out, files, now) ==
    LET noSize  == res.size = NoSize
        vf      == IF noSize THEN NoFilter ELSE video_filter(res.size)
        log1    == res.log \o
                   (IF noSize THEN <<Log("warning", "native_resolution")>> ELSE << >>)
        done    == IF noSize THEN "video_unscaled"
                   ELSE IF vf # NoFilter THEN "video_scaled" ELSE "video"
        encoded == Written(f, now, NoSize, vf, FALSE, TRUE)
        stamped == [encoded EXCEPT !.mtime = f.mtime]
    IN  CASE f.encode = "fail" ->
                [files |-> files,
                 log |-> Append(log1, Log("error", "video_error")),
                 status |-> "error"]
          [] f.encode = "fail_partial" ->
                [files |-> Put(files, out, [encoded EXCEPT !.complete = FALSE]),
                 log |-> Append(log1, Log("error", "video_error")),
                 status |-> "error"]
          [] f.encode = "ok" /\ f.stat = "fail" ->
                [files |-> Put(files, out, encoded),
                 log |-> IF noSize THEN log1 ELSE Append(log1, Log("info", done)),
                 status |-> "raised"]
          [] f.encode = "ok" /\ f.stat = "ok" ->
                [files |-> Put(files, out, stamped),
                 log |-> Append(log1, Log("info", done)),
                 status |-> "ok"]

\* A file whose probe gave no size is skipped with the warning.
SkipWithoutSize(f, out, files, now) ==
    IF get_video_resolution(f).size = NoSize
    THEN [files |-> files,
          log |-> get_video_resolution(f).log \o <<Log("warning", "native_resolution")>>,
          status |-> "ok"]
    ELSE encode_video(get_video_resolution(f), f, out, files, now)

compress_videos(f, out, files, now) ==
    encode_video(get_video_resolution(f), f, out, files, now)

(***************************************************************************)
(* resize_image: the size of the image returned, whether it was resampled, *)
(* and whether Image.resize raised (it refuses a size with a zero edge).   *)
(***************************************************************************)
new_size(width, height) ==
    IF width > height
    THEN <<MAX_SIZE, scaled_edge(height, width)>>
    ELSE <<scaled_edge(width, height), MAX_SIZE>>

\* img.resize(new, LANCZOS)
resized(new) == [size |-> new, resampled |-> TRUE, raised |-> new[1] = 0 \/ new[2] = 0]

ResizeAlways(size) == resized(new_size(size[1], size[2]))

resize_image(size) ==
    IF size[1] > MAX_SIZE \/ size[2] > MAX_SIZE
    THEN resized(new_size(size[1], size[2]))
    ELSE [size |-> size, resampled |-> FALSE, raised |-> FALSE]

(***************************************************************************)
(* save_image_with_resize: every exception is caught and logged.           *)
(***************************************************************************)
\* The save and the timestamp copy of the image resize_image returned (r).
save_resized(exif_data, r, f, out, files, now) ==
    LET log1    == IF r.resampled /\ ~r.raised
                   THEN <<Log("info", "image_resized")>> ELSE << >>
        saved   == Written(f, now, r.size, NoFilter, exif_data, TRUE)
        stamped == [saved EXCEPT !.mtime = f.mtime]
    IN  CASE r.raised \/ f.encode # "ok" ->
                [files |-> files,
                 log |-> Append(log1, Log("error", "image_save_error")),
                 status |-> "error"]
          [] ~r.raised /\ f.encode = "ok" /\ f.stat = "fail" ->
                [files |-> Put(files, out, saved),
                 log |-> Append(log1, Log("error", "image_save_error")),
                 status |-> "error"]
          [] ~r.raised /\ f.encode = "ok" /\ f.stat = "ok" ->
                [files |-> Put(files, out, stamped),
                 log |-> Append(log1, Log("info", "image_saved")),
                 status |-> "ok"]

\* The timestamp copy made part of the EXIF branch.
StampOnlyWithExif(img, f, out, files, now) ==
    IF img.exif
    THEN save_resized(img.exif, resize_image(img.size), f, out, files, now)
    ELSE save_resized(img.exif, resize_image(img.size), [f EXCEPT !.mtime = now],
                      out, files, now)

save_image_with_resize(img, f, out, files, now) ==
    save_resized(img.exif, resize_image(img.size), f, out, files, now)

(***************************************************************************)
(* compress_photos, compress_raw, compress_heic: decode, then the shared   *)
(* save_image_with_resize. Image.fromarray gives an image without EXIF.    *)
(***************************************************************************)
compress_photos(f, out, files, now) ==
    IF f.decode = "corrupt"
    THEN [files |-> files, log |-> <<Log("error", "image_corrupt")>>, status |-> "error"]
    ELSE save_image_with_resize([size |-> f.size, exif |-> f.exif], f, out, files, now)

compress_raw(f, out, files, now) ==
    IF f.decode = "corrupt"
    THEN [files |-> files, log |-> <<Log("error", "raw_error")>>, status |-> "error"]
    ELSE save_image_with_resize([size |-> f.size, exif |-> FALSE], f, out, files, now)

compress_heic(f, out, files, now) ==
    IF f.decode = "corrupt"
    THEN [files |-> files, log |-> <<Log("error", "heic_error")>>, status |-> "error"]
    ELSE save_image_with_resize([size |-> f.size, exif |-> f.exif], f, out, files, now)

(***************************************************************************)
(* process_media: the classification of a file name, the output path of a  *)
(* classified file, the skip-if-exists test and the adapter call.          *)
(***************************************************************************)
adapter_for(name) ==
    LET lowered == file_lower(name)
    IN  IF endswith(lowered, VIDEO_EXTS) THEN "compress_videos"
        ELSE IF endswith(lowered, PHOTO_EXTS) THEN "compress_photos"
        ELSE IF endswith(lowered, RAW_EXTS) THEN "compress_raw"
        ELSE IF endswith(lowered, HEIC_EXTS) THEN "compress_heic"
        ELSE "none"

output_for(f, adapter) ==
    IF adapter = "compress_videos"
    THEN get_output_path(f, NoExt, FALSE)
    ELSE get_output_path(f, JPG, FALSE)

NeverExists(out, files) == FALSE

exists(out, files) == out \in DOMAIN files

run_adapter(adapter, f, out, files, now) ==
    CASE adapter = "compress_videos" -> compress_videos(f, out, files, now)
      [] adapter = "compress_photos" -> compress_photos(f, out, files, now)
      [] adapter = "compress_raw"    -> compress_raw(f, out, files, now)
      [] adapter = "compress_heic"   -> compress_heic(f, out, files, now)

(***************************************************************************)
(* The source trees of the model. A file is its path, its modification     *)
(* time, what it holds (kind, size, EXIF) and how the external calls on it *)
(* end. An attribute no call on the file reads keeps its first value, and  *)
(* so do the size and the EXIF of a file on which a call fails.            *)
(***************************************************************************)
Paths ==
    << [dir |-> ".",   kind |-> "video", name |-> <<"c", "l", "i", "p", ".", "M", "O", "V">>],
       [dir |-> ".",   kind |-> "photo", name |-> <<"p", "h", "o", "t", "o", ".", "j", "p", "g">>],
       [dir |-> ".",   kind |-> "photo", name |-> <<"p", "h", "o", "t", "o", ".", "P", "N", "G">>],
       [dir |-> "sub", kind |-> "raw",   name |-> <<"r", "a", "w", ".", "a", "r", "w">>],
       [dir |-> "sub", kind |-> "heic",  name |-> <<"r", "a", "w", ".", "h", "e", "i", "c">>],
       [dir |-> "sub", kind |-> "other", name |-> <<"n", "o", "t", "e", "s", ".", "t", "x", "t">>],
       [dir |-> ".",   kind |-> "other", name |-> <<"j", "p", "g">>] >>

Within == <<MAX_SIZE, 1080>>

Over == <<4000, 3000>>

\* An external call on the file fails (a probe without a size is not one).
Faulty(a) == a.decode # "ok" \/ a.encode # "ok" \/ a.stat # "ok"

WellFormed(a) ==
    LET kind == Paths[a.path].kind
    IN  /\ Faulty(a) => a.size = Within /\ ~a.exif
        /\ a.decode # "ok" => a.encode = "ok"
        /\ a.encode # "ok" => a.stat = "ok"
        /\ kind = "other" => a.size = Within /\ ~a.exif /\ a.probe = "ok" /\ ~Faulty(a)
        /\ kind = "video" =>
              /\ ~a.exif /\ a.decode = "ok"
              /\ a.probe # "ok" => a.size = Within
        /\ kind \in {"photo", "raw", "heic"} =>
              /\ a.probe = "ok" /\ a.encode # "fail_partial"
              /\ kind = "raw" => ~a.exif

Attributes ==
    { a \in [path : 1..Len(Paths), size : {Within, Over}, exif : BOOLEAN,
             probe : {"ok", "raises", "no_stream"}, decode : {"ok", "corrupt"},
             encode : {"ok", "fail", "fail_partial"}, stat : {"ok", "fail"}] :
        WellFormed(a) }

Files ==
    { [dir |-> Paths[a.path].dir, name |-> Paths[a.path].name, mtime |-> a.path,
       size |-> a.size, exif |-> a.exif, probe |-> a.probe, decode |-> a.decode,
       encode |-> a.encode, stat |-> a.stat] : a \in Attributes }

\* A walk names no path twice.
DistinctPaths(t) ==
    \A i, j \in 1..Len(t) : i # j => SourcePath(t[i]) # SourcePath(t[j])

\* The clock of run r: later than every source file's modification time.
Now(r) == Len(Paths) + r

EmptyFiles == [p \in {} |-> NoPath]

\* What a size policy returned: r of resize_image, vf of compress_videos.
Returned(op, r, vf) ==
    [op |-> op, size |-> r.size, resampled |-> r.resampled, raised |-> r.raised, vf |-> vf]

NoRet == Returned("none", [size |-> NoSize, resampled |-> FALSE, raised |-> FALSE], NoFilter)

(***************************************************************************)
(* The script: process_media under the top-level handler, run twice in     *)
(* succession over the same source tree.                                   *)
(***************************************************************************)
Init ==
    /\ \E n \in 0..MaxFiles : tree \in [1..n -> Files]
    /\ DistinctPaths(tree)
    /\ run = 1
    /\ pc = "ready"
    /\ idx = 0
    /\ outFiles = EmptyFiles
    /\ outDirs = {"."}
    /\ visits = << >>
    /\ snapshot = EmptyFiles
    /\ arg = NoSize
    /\ ret = NoRet

\* process_media's test of an empty input folder.
Start ==
    /\ pc = "ready"
    /\ IF tree = << >> THEN pc' = "done" /\ idx' = 0 ELSE pc' = "walk" /\ idx' = 1
    /\ UNCHANGED <<tree, run, outFiles, outDirs, visits, snapshot, arg, ret>>

Visited(i, calls, out, existed, status, log) ==
    [file |-> i, calls |-> calls, out |-> out, existed |-> existed,
     status |-> status, log |-> log]

\* The state after the adapter returned r, or raised: an exception leaving
\* the adapter leaves process_media and is logged as critical by the
\* top-level handler, which ends the run.
Adapted(adapter, out, r) ==
    /\ outFiles' = r.files
    /\ IF r.status = "raised"
       THEN /\ visits' = Append(visits,
                    Visited(idx, <<adapter>>, out, out \in DOMAIN outFiles, r.status,
                            Append(r.log, Log("critical", "critical"))))
            /\ pc' = "critical"
            /\ idx' = idx
       ELSE /\ visits' = Append(visits,
                    Visited(idx, <<adapter>>, out, out \in DOMAIN outFiles, r.status, r.log))
            /\ pc' = pc
            /\ idx' = idx + 1

\* One iteration of the loop over the walk, for file f.
Dispatch(f, adapter, out) ==
    IF adapter = "none"
    THEN /\ visits' = Append(visits, Visited(idx, << >>, NoPath, FALSE, "unsupported",
                                 <<Log("info", "skip_unsupported")>>))
         /\ idx' = idx + 1
         /\ UNCHANGED <<pc, outFiles, outDirs>>
    ELSE /\ outDirs' = outDirs \cup {out.dir}
         /\ IF exists(out, outFiles)
            THEN /\ visits' = Append(visits, Visited(idx, << >>, out, TRUE, "exists",
                                         <<Log("info", "skip_exists")>>))
                 /\ idx' = idx + 1
                 /\ UNCHANGED <<pc, outFiles>>
            ELSE Adapted(adapter, out, run_adapter(adapter, f, out, outFiles, Now(run)))

Visit ==
    /\ pc = "walk"
    /\ idx <= Len(tree)
    /\ Dispatch(tree[idx], adapter_for(tree[idx].name),
                output_for(tree[idx], adapter_for(tree[idx].name)))
    /\ UNCHANGED <<tree, run, snapshot, arg, ret>>

\* The walk is over: process_media returns.
Finish ==
    /\ pc = "walk"
    /\ idx > Len(tree)
    /\ pc' = "done"
    /\ UNCHANGED <<tree, run, idx, outFiles, outDirs, visits, snapshot, arg, ret>>

\* The script is started again over the unchanged source tree.
Rerun ==
    /\ pc \in {"done", "critical"}
    /\ run = 1
    /\ run' = run + 1
    /\ pc' = "ready"
    /\ idx' = 0
    /\ visits' = << >>
    /\ snapshot' = outFiles
    /\ UNCHANGED <<tree, outFiles, outDirs, arg, ret>>

Next == Start \/ Visit \/ Finish \/ Rerun

Spec == Init /\ [][Next]_vars

(***************************************************************************)
(* The two size policies applied to one size: resize_image, and the filter *)
(* compress_videos encodes a probed size with.                             *)
(***************************************************************************)
Edges ==
    ((MAX_SIZE - Span)..(MAX_SIZE + Span))
        \cup {1, 2, 1000, 1074, 1080, 2001, 2148, 2160, 3000, 3840, 3841, 4000}

SizesInit ==
    /\ arg \in Edges \X Edges
    /\ ret = NoRet
    /\ pc = "pure"
    /\ tree = << >>
    /\ run = 1
    /\ idx = 0
    /\ outFiles = EmptyFiles
    /\ outDirs = {"."}
    /\ visits = << >>
    /\ snapshot = EmptyFiles

ApplyResizeImage ==
    /\ pc = "pure"
    /\ ret = NoRet
    /\ ret' = Returned("resize_image", resize_image(arg), NoFilter)
    /\ UNCHANGED <<tree, run, pc, idx, outFiles, outDirs, visits, snapshot, arg>>

ApplyVideoFilter ==
    /\ pc = "pure"
    /\ ret = NoRet
    /\ ret' = Returned("video_filter", [size |-> NoSize, resampled |-> FALSE, raised |-> FALSE],
                        video_filter(arg))
    /\ UNCHANGED <<tree, run, pc, idx, outFiles, outDirs, visits, snapshot, arg>>

SizesNext == ApplyResizeImage \/ ApplyVideoFilter

SizesSpec == SizesInit /\ [][SizesNext]_vars

(***************************************************************************)
(* Properties.                                                             *)
(***************************************************************************)
Visits == 1..Len(visits)

FileOf(i) == tree[visits[i].file]

Logged(i, level, msg) ==
    \E k \in 1..Len(visits[i].log) : visits[i].log[k] = Log(level, msg)

\* C1: every failure raised while a file's adapter runs is caught inside the
\* adapter, and process_media visits every remaining file of the walk: no run
\* ends in the top-level handler, and a run that is over has visited every
\* file of the tree.
C1_FailuresIsolated ==
    /\ pc # "critical"
    /\ \A i \in Visits : visits[i].status # "raised"
    /\ pc = "done" => Len(visits) = Len(tree)

\* C2: a second run over the unchanged source tree creates no new output
\* file and modifies no existing output file: during the second run the
\* output files are those the first run left.
C2_SecondRunChangesNothing == run = 2 => outFiles = snapshot

\* C3: when process_media visits a supported file whose output path already
\* exists, no adapter is invoked for it and the file at that path is left as
\* it was: an adapter only runs against a path that did not exist.
C3_ExistingOutputsKept ==
    [][ \A p \in DOMAIN outFiles :
            ( /\ pc = "walk"
              /\ idx <= Len(tree)
              /\ adapter_for(tree[idx].name) # "none"
              /\ output_for(tree[idx], adapter_for(tree[idx].name)) = p )
            => /\ p \in DOMAIN outFiles'
               /\ outFiles'[p] = outFiles[p]
               /\ Len(visits') = Len(visits) + 1
               /\ visits'[Len(visits')].calls = << >> ]_vars

\* A file was skipped because another source file's output lay at its path.
C3_Witness ==
    \E i \in Visits :
        /\ visits[i].status = "exists"
        /\ visits[i].calls = << >>
        /\ outFiles[visits[i].out].src # SourcePath(FileOf(i))

\* C4: every output file an adapter produced successfully has the source
\* file's modification time once the adapter has returned, on the scaled,
\* unscaled and probe-failed paths, with and without EXIF in the source.
C4_TimestampPreserved ==
    \A i \in Visits :
        visits[i].status = "ok" =>
            /\ visits[i].out \in DOMAIN outFiles
            /\ outFiles[visits[i].out].mtime = FileOf(i).mtime

\* A video whose probe failed and a downscaled image without EXIF were both
\* produced in one run.
C4_Witness ==
    \E i, j \in Visits :
        /\ visits[i].status = "ok" /\ visits[i].calls = <<"compress_videos">>
        /\ FileOf(i).probe # "ok"
        /\ visits[j].status = "ok" /\ visits[j].calls = <<"compress_photos">>
        /\ ~FileOf(j).exif /\ FileOf(j).size = Over
        /\ outFiles[visits[j].out].size # Over

\* round(a / b) for positive ints, ties to even.
RoundDiv(a, b) ==
    IF 2 * (a % b) < b THEN a \div b
    ELSE IF 2 * (a % b) > b THEN (a \div b) + 1
    ELSE (a \div b) + ((a \div b) % 2)

\* C5: for every size with both edges >= 1 and the longer above MAX_SIZE,
\* resize_image returns the longer edge as MAX_SIZE exactly and the shorter
\* as round(shorter * MAX_SIZE / longer).
C5_DownscaleRounds ==
    (ret.op = "resize_image" /\ (arg[1] > MAX_SIZE \/ arg[2] > MAX_SIZE)) =>
        IF arg[1] >= arg[2]
        THEN ret.size = <<MAX_SIZE, RoundDiv(arg[2] * MAX_SIZE, arg[1])>>
        ELSE ret.size = <<RoundDiv(arg[1] * MAX_SIZE, arg[2]), MAX_SIZE>>

\* C6: for every size with both edges <= MAX_SIZE, resize_image returns the
\* size unchanged and resamples nothing.
C6_NoUpscaling ==
    (ret.op = "resize_image" /\ arg[1] <= MAX_SIZE /\ arg[2] <= MAX_SIZE) =>
        ret.size = arg /\ ~ret.resampled /\ ~ret.raised

\* resize_image was applied to a size whose longer edge is MAX_SIZE itself.
C6_Witness ==
    /\ ret.op = "resize_image"
    /\ arg[1] = MAX_SIZE /\ arg[2] < MAX_SIZE
    /\ ret.size = arg

\* C7: compress_videos encodes a probed size with a scale filter iff an edge
\* exceeds MAX_SIZE, and for every such size, width = height included, the
\* filter sets the longer edge to MAX_SIZE and the shorter to -2.
C7_ScaleFilter ==
    ret.op = "video_filter" =>
        /\ ret.vf # NoFilter <=> (arg[1] > MAX_SIZE \/ arg[2] > MAX_SIZE)
        /\ (arg[1] > MAX_SIZE \/ arg[2] > MAX_SIZE) =>
              \/ arg[1] >= arg[2] /\ ret.vf = <<MAX_SIZE, -2>>
              \/ arg[2] >= arg[1] /\ ret.vf = <<-2, MAX_SIZE>>

\* The lower-cased suffix of a name from its last dot (at d) on; empty
\* without one.
SuffixFrom(name, d) ==
    IF d = 0 THEN << >>
    ELSE [i \in 1..(Len(name) - d + 1) |-> LowerChar(name[d + i - 1])]

StemTo(name, d) == IF d = 0 THEN name ELSE SubSeq(name, 1, d - 1)

\* The adapter of the kind a suffix names.
SuffixAdapter(suffix) ==
    CASE suffix \in VIDEO_EXTS -> "compress_videos"
      [] suffix \in PHOTO_EXTS -> "compress_photos"
      [] suffix \in RAW_EXTS   -> "compress_raw"
      [] suffix \in HEIC_EXTS  -> "compress_heic"
      [] OTHER -> "none"

KindAdapter(name) == SuffixAdapter(SuffixFrom(name, LastDot(name)))

\* The output path of a file whose kind has this adapter.
AdapterOutput(f, adapter) ==
    CASE adapter = "compress_videos" -> [dir |-> f.dir, name |-> f.name]
      [] adapter = "none" -> NoPath
      [] OTHER -> [dir |-> f.dir, name |-> StemTo(f.name, LastDot(f.name)) \o JPG]

KindOutput(f) == AdapterOutput(f, KindAdapter(f.name))

\* Visit v of file f went the way of the kind with this adapter.
DispatchedAs(v, f, adapter) ==
    /\ v.out = AdapterOutput(f, adapter)
    /\ v.calls \in {<< >>, <<adapter>>}
    /\ v.calls = << >> <=> v.status \in {"exists", "unsupported"}
    /\ adapter = "none" =>
          /\ v.status = "unsupported"
          /\ v.log = <<Log("info", "skip_unsupported")>>
    /\ adapter # "none" => v.status # "unsupported"

\* The files of the tree that have a kind.
Supported == { i \in 1..Len(tree) : KindAdapter(tree[i].name) # "none" }

\* C8: process_media classifies every file by its lower-cased suffix into
\* one kind and invokes at most one adapter, the one of that kind, on the
\* output path of that kind (the name itself for a video, the name with .jpg
\* for its extension for an image); a file of no kind invokes no adapter,
\* raises no error, and no output file or directory exists because of it.
C8_DispatchBySuffix ==
    /\ \A i \in Visits : DispatchedAs(visits[i], FileOf(i), KindAdapter(FileOf(i).name))
    /\ DOMAIN outFiles \subseteq { KindOutput(tree[i]) : i \in Supported }
    /\ outDirs \ {"."} \subseteq { tree[i].dir : i \in Supported }

\* An unsupported file in a directory of its own was visited, no directory
\* was made for it, and a video with an upper-case extension was encoded.
C8_Witness ==
    \E i, j \in Visits :
        /\ visits[i].status = "unsupported"
        /\ FileOf(i).dir = "sub" /\ "sub" \notin outDirs
        /\ visits[j].calls = <<"compress_videos">>
        /\ FileOf(j).name # file_lower(FileOf(j).name)
        /\ visits[j].out \in DOMAIN outFiles

\* The degraded path but for the level of the log: a video whose probe gave
\* no size is not skipped; the warning is logged, the encode runs without a
\* scale filter, and after a successful encode and timestamp copy the output
\* has the source's modification time.
Degraded(i) ==
    /\ Logged(i, "warning", "native_resolution")
    /\ FileOf(i).encode = "ok" =>
          /\ visits[i].out \in DOMAIN outFiles
          /\ outFiles[visits[i].out].vf = NoFilter
          /\ FileOf(i).stat = "ok" => outFiles[visits[i].out].mtime = FileOf(i).mtime
    /\ FileOf(i).encode # "ok" => Logged(i, "error", "video_error")

\* C9 as stated: whenever the probe of a video yields no size, the failure is
\* logged at warning level and not at error level, and the degraded path is
\* taken.
C9_ProbeFailureOnlyWarns ==
    \A i \in Visits :
        (visits[i].calls = <<"compress_videos">> /\ FileOf(i).probe # "ok") =>
            /\ Degraded(i)
            /\ ~Logged(i, "error", "resolution_error")

\* C9 as amended: whenever the probe of a video yields no size, the degraded
\* path is taken and the warning is logged; get_video_resolution has logged
\* an error before it exactly when the probe raised.
C9_ProbeFailureDegrades ==
    \A i \in Visits :
        (visits[i].calls = <<"compress_videos">> /\ FileOf(i).probe # "ok") =>
            /\ Degraded(i)
            /\ Logged(i, "error", "resolution_error") <=> FileOf(i).probe = "raises"

\* A video whose probe raised was encoded and stamped.
C9_Witness ==
    \E i \in Visits :
        /\ visits[i].status = "ok" /\ FileOf(i).probe = "raises"
        /\ visits[i].out \in DOMAIN outFiles
        /\ outFiles[visits[i].out].mtime = FileOf(i).mtime

\* C10: in a run that starts with an empty output tree and in which no
\* adapter fails, no supported file is skipped as already existing.
C10_NoInputLost ==
    (run = 1 /\ \A i \in Visits : visits[i].status \notin {"error", "raised"}) =>
        \A i \in Visits : visits[i].status # "exists"

====
